---- MODULE Spec2Model ----
(***************************************************************************)
(* Model of the StarkNet invocation compilers and syscall signatures:      *)
(*   crates/sierra_to_casm/src/invocations/starknet/interoperability.rs    *)
(*   crates/sierra/src/extensions/modules/starknet/storage.rs              *)
(* One compilation (or one signature specialization) per behaviour: Init   *)
(* draws the libfunc and its inputs, the actions run the code on them.     *)
(***************************************************************************)
EXTENDS Integers, Sequences, FiniteSets, TLC

VARIABLES
    libfunc,              \* the concrete libfunc being specialized / compiled
    refs,                 \* builder.refs: the input reference expressions
    c,                    \* libfunc.c of a const libfunc (a BigInt)
    context,              \* type ids the specialization context resolves
    failure_target,       \* statement id of the non-fallthrough branch
    pc,                   \* position in the running function
    ip,                   \* next statement of the casm_build_extend! block
    bound,                \* (gas_builtin, system, contract_address, call_data)
    array_view_ty,        \* the parameter type handed to ArrayView::try_get_view
    session,              \* TRUE once CasmBuilder::default() has run
    bvars,                \* CasmBuilder: variable -> operand
    allocated,            \* CasmBuilder main_state.allocated
    ap_change,            \* CasmBuilder main_state.ap_change
    instructions,         \* CasmBuilder: emitted instructions
    current_hints,        \* CasmBuilder: hints waiting for the next instruction
    label_state,          \* CasmBuilder: label -> captured state
    jumps,                \* CasmBuilder: (instruction index, label) of jumps
    built,                \* CasmBuildResult
    result,               \* Result<CompiledInvocation, InvocationError>
    signature             \* Result<LibFuncSignature, SpecializationError>

vars == <<libfunc, refs, c, context, failure_target, pc, ip, bound, array_view_ty,
          session, bvars, allocated, ap_change, instructions, current_hints,
          label_state, jumps, built, result, signature>>

(***************************************************************************)
(* Bounds of the model.                                                    *)
(***************************************************************************)
MaxOff == 1        \* input cells use offsets 1..MaxOff from ap / fp
MaxImm == 1        \* added constants of input bin-op cells are 0..MaxImm
MaxExtra == 1      \* input lists have up to NumArgs + MaxExtra references
MaxStmt == 2       \* statement ids of the failure branch are 1..MaxStmt
MaxSmall == 2      \* small constants c are -MaxSmall..MaxSmall

(***************************************************************************)
(* BigInt: sign and magnitude, the magnitude as little-endian digits in    *)
(* base 2^16 without leading zero digits (num_bigint's representation with *)
(* a narrower digit).                                                      *)
(***************************************************************************)
DigitBits == 8 + 8
DigitBase == 2 ^ DigitBits

RECURSIVE Trim(_)
Trim(mag) ==
    IF Len(mag) > 0 /\ mag[Len(mag)] = 0 THEN Trim(SubSeq(mag, 1, Len(mag) - 1))
    ELSE mag

BigFromMag(sign, mag) ==
    LET m == Trim(mag) IN [sign |-> IF m = <<>> THEN 0 ELSE sign, mag |-> m]

\* BigInt::from(n) for a machine integer n.
BigFromInt(n) ==
    LET a == IF n < 0 THEN -n ELSE n
    IN  BigFromMag(IF n < 0 THEN -1 ELSE 1, <<a % DigitBase, a \div DigitBase>>)

BigZero == BigFromInt(0)

\* x << k for a non-negative single-digit x.
BigShl(x, k) ==
    LET whole == k \div DigitBits
        part  == k % DigitBits
        v     == x.mag[1] * (2 ^ part)
    IN  IF x.sign = 0 THEN x
        ELSE BigFromMag(x.sign, [i \in 1..(whole + 2) |->
                 IF i = whole + 1 THEN v % DigitBase
                 ELSE IF i = whole + 2 THEN v \div DigitBase
                 ELSE 0])

\* Magnitude comparison: -1, 0, 1.
RECURSIVE MagCmpFrom(_, _, _)
MagCmpFrom(a, b, i) ==
    IF i = 0 THEN 0
    ELSE IF a[i] < b[i] THEN -1
    ELSE IF a[i] > b[i] THEN 1
    ELSE MagCmpFrom(a, b, i - 1)

MagCmp(a, b) ==
    IF Len(a) < Len(b) THEN -1
    ELSE IF Len(a) > Len(b) THEN 1
    ELSE MagCmpFrom(a, b, Len(a))

\* Ord for BigInt: -1, 0, 1.
BigCmp(x, y) ==
    IF x.sign < y.sign THEN -1
    ELSE IF x.sign > y.sign THEN 1
    ELSE IF x.sign = 0 THEN 0
    ELSE x.sign * MagCmp(x.mag, y.mag)

BigGe(x, y) == BigCmp(x, y) >= 0

\* BigInt::from_bytes_le(Sign::Plus, bytes).
BigFromBytesLe(bytes) ==
    LET n == (Len(bytes) + 1) \div 2
        byte(i) == IF i <= Len(bytes) THEN bytes[i] ELSE 0
    IN  BigFromMag(1, [i \in 1..n |-> byte(2 * i - 1) + 256 * byte(2 * i)])

(***************************************************************************)
(* Operands and cell expressions. One record shape for all kinds:          *)
(*   Deref        [reg + off]                                              *)
(*   DoubleDeref  [[reg + off] + imm]                                      *)
(*   BinOp        [reg + off] + imm                                        *)
(*   Immediate    value                                                    *)
(***************************************************************************)
Deref(reg, off) ==
    [kind |-> "Deref", reg |-> reg, off |-> off, imm |-> 0, value |-> BigZero]
DoubleDeref(reg, off, imm) ==
    [kind |-> "DoubleDeref", reg |-> reg, off |-> off, imm |-> imm, value |-> BigZero]
BinOpAdd(reg, off, imm) ==
    [kind |-> "BinOp", reg |-> reg, off |-> off, imm |-> imm, value |-> BigZero]
Immediate(v) ==
    [kind |-> "Immediate", reg |-> "", off |-> 0, imm |-> 0, value |-> v]
NoOperand ==
    [kind |-> "None", reg |-> "", off |-> 0, imm |-> 0, value |-> BigZero]

\* The cell (register, offset) an operand is based on, as a Deref.
CellOf(opnd) == Deref(opnd.reg, opnd.off)

\* CellExpression::from_res_operand
from_res_operand(opnd) ==
    CASE opnd.kind = "Deref"       -> Deref(opnd.reg, opnd.off)
      [] opnd.kind = "DoubleDeref" -> DoubleDeref(opnd.reg, opnd.off, opnd.imm)
      [] opnd.kind = "Immediate"   -> Immediate(opnd.value)
      [] opnd.kind = "BinOp"       -> BinOpAdd(opnd.reg, opnd.off, opnd.imm)

\* ReferenceExpression::from_cell
from_cell(cell) == [cells |-> <<cell>>]

Ok(v) == [ok |-> TRUE, err |-> "", val |-> v]
Err(e) == [ok |-> FALSE, err |-> e, val |-> NoOperand]

(***************************************************************************)
(* Reference / location tracker.                                           *)
(***************************************************************************)
\* ReferenceExpression::try_unpack_single
try_unpack_single(expr) ==
    IF Len(expr.cells) = 1 THEN Ok(expr.cells[1])
    ELSE Err("UnexpectedNumberOfCells")

\* CellExpression::to_deref
to_deref(cell) ==
    IF cell.kind = "Deref" THEN Ok(cell)
    ELSE Err("InvalidReferenceExpressionForArgument")

\* CellExpression::to_buffer(required_slack)
to_buffer(cell, required_slack) ==
    IF cell.kind \in {"Deref", "BinOp"} THEN Ok(cell)
    ELSE Err("InvalidReferenceExpressionForArgument")

\* ArrayView::try_get_view(expr, program_info, concrete_type_id): the view
\* {start, end, end_offset} of a two-cell array reference.
try_get_view(expr, ty) ==
    IF Len(expr.cells) # 2 THEN Err("InvalidReferenceExpression")
    ELSE IF expr.cells[1].kind # "Deref" THEN Err("InvalidReferenceExpression")
    ELSE IF expr.cells[2].kind \notin {"Deref", "BinOp"}
         THEN Err("InvalidReferenceExpression")
    ELSE Ok([start |-> expr.cells[1],
             end |-> CellOf(expr.cells[2]),
             end_offset |-> expr.cells[2].imm])

(***************************************************************************)
(* Inputs.                                                                 *)
(***************************************************************************)
DerefCells ==
    {Deref("AP", -o) : o \in 1..MaxOff} \cup {Deref("FP", o) : o \in 1..MaxOff}
BinOpCells == {BinOpAdd("AP", -1, k) : k \in 0..MaxImm}
ImmCells == {Immediate(BigFromInt(1))}

SingleRefs == {from_cell(x) : x \in DerefCells \cup BinOpCells \cup ImmCells}
ArrayRefs ==
    {[cells |-> <<Deref("FP", 1), e>>] :
        e \in {Deref("AP", -1)} \cup BinOpCells \cup ImmCells}
    \cup {[cells |-> <<Immediate(BigFromInt(1)), Deref("FP", 1)>>]}
RefExprs == SingleRefs \cup ArrayRefs \cup {[cells |-> <<>>]}

\* The four references build_call_contract binds (the slice pattern).
NumArgs == 4

RefLists ==
    UNION {[1..n -> RefExprs] : n \in 0..NumArgs}
    \cup {r \o x : r \in [1..NumArgs -> RefExprs],
                   x \in UNION {[1..k -> {from_cell(Deref("FP", 1))}] : k \in 1..MaxExtra}}

\* 1 << 251
addr_bound == BigShl(BigFromInt(1), 251)

\* addr_bound - 1, addr_bound + 1 and 2 * addr_bound, digit by digit.
AddrBoundLess1 ==
    BigFromMag(1, [i \in 1..Len(addr_bound.mag) |->
        IF i = Len(addr_bound.mag) THEN addr_bound.mag[i] - 1 ELSE DigitBase - 1])
AddrBoundPlus1 ==
    BigFromMag(1, [i \in 1..Len(addr_bound.mag) |->
        IF i = 1 THEN 1 ELSE addr_bound.mag[i]])
AddrBoundTwice == BigShl(BigFromInt(1), 252)

Negated(x) == [sign |-> -x.sign, mag |-> x.mag]

ConstInputs ==
    LET pos == {BigFromInt(n) : n \in 0..MaxSmall}
               \cup {AddrBoundLess1, addr_bound, AddrBoundPlus1, AddrBoundTwice}
    IN  pos \cup {Negated(x) : x \in pos}

TypeIds == {"GasBuiltin", "System", "StorageAddress", "felt"}

(***************************************************************************)
(* Initial state: nothing has run; the libfunc and its inputs are drawn.   *)
(***************************************************************************)
NoResult ==
    [status |-> "none", err |-> "", expected |-> 0, actual |-> 0,
     instructions |-> <<>>, relocations |-> <<>>, branches |-> <<>>]
NoBound ==
    [gas_builtin |-> NoOperand, system |-> NoOperand, contract_address |-> NoOperand,
     call_data_start |-> NoOperand, call_data_end |-> NoOperand, end_offset |-> 0]
\* The symbolic variables of build_call_contract's builder session.
VarNames ==
    {"system", "selector_imm", "gas_builtin", "contract_address", "call_data_start",
     "call_data_end", "selector", "original_system", "updated_gas_builtin",
     "revert_reason", "res_start", "res_end"}
NoVars == [v \in VarNames |-> NoOperand]
NoState == [reached |-> FALSE, vars |-> NoVars, ap_change |-> 0]
NoBuilt ==
    [done |-> FALSE, instructions |-> <<>>, awaiting_relocations |-> <<>>,
     label_state |-> [l \in {"Failure"} |-> NoState], fallthrough_state |-> NoState]
NoSignature ==
    [status |-> "none", err |-> "", param_signatures |-> <<>>,
     branch_signatures |-> <<>>, fallthrough |-> -1]

Labels == {"Failure"}
NoType == [param_idx |-> -1, ty |-> ""]

Init ==
    /\ libfunc \in {"call_contract", "storage_address_const",
                    "storage_read_syscall", "storage_write_syscall"}
    /\ IF libfunc = "call_contract"
       THEN refs \in RefLists /\ failure_target \in 1..MaxStmt
       ELSE refs = <<>> /\ failure_target = 1
    /\ IF libfunc = "storage_address_const" THEN c \in ConstInputs ELSE c = BigZero
    /\ IF libfunc \in {"storage_read_syscall", "storage_write_syscall"}
       THEN context \in SUBSET TypeIds
       ELSE context = TypeIds
    /\ pc = "entry"
    /\ ip = 0
    /\ bound = NoBound
    /\ array_view_ty = NoType
    /\ session = FALSE
    /\ bvars = NoVars
    /\ allocated = 0
    /\ ap_change = 0
    /\ instructions = <<>>
    /\ current_hints = <<>>
    /\ label_state = [l \in Labels |-> NoState]
    /\ jumps = <<>>
    /\ built = NoBuilt
    /\ result = NoResult
    /\ signature = NoSignature

(***************************************************************************)
(* build_call_contract: argument validation.                               *)
(***************************************************************************)
\* The parameter types of the call_contract signature:
\* gas builtin, system, contract address, call data.
call_contract_param_signatures ==
    <<"GasBuiltin", "System", "ContractAddress", "Array<felt>">>

\* The index in &libfunc.signature().param_signatures[2].ty, counted from 0.
concrete_array_type_idx == 2

\* &libfunc.signature().param_signatures[2].ty
concrete_array_type ==
    [param_idx |-> concrete_array_type_idx,
     ty |-> call_contract_param_signatures[concrete_array_type_idx + 1]]

\* get_non_fallthrough_statement_id(&builder)
get_non_fallthrough_statement_id == failure_target

\* "call_contract".as_bytes()
SelectorBytes == <<99, 97, 108, 108, 95, 99, 111, 110, 116, 114, 97, 99, 116>>
selector_imm == BigFromBytesLe(SelectorBytes)

\* expr.try_unpack_single()?.to_deref()?
UnpackDeref(expr) ==
    LET u == try_unpack_single(expr) IN IF u.ok THEN to_deref(u.val) ELSE u

\* expr.try_unpack_single()?.to_buffer(n)?
UnpackBuffer(expr, n) ==
    LET u == try_unpack_single(expr) IN IF u.ok THEN to_buffer(u.val, n) ELSE u

\* The argument of WrongNumberOfArguments { expected, .. }.
ExpectedArgs == 2

\* A variant of WrongArity: a slice pattern with a rest, [a, b, c, d, ..].
WrongArityPrefix(rs) == Len(rs) < NumArgs

\* The fallback arm `refs => ...`: the list does not match the four-element
\* slice pattern.
WrongArity(rs) == Len(rs) # NumArgs

\* The match on builder.refs: the four bound operands, or the first error.
BindRefs(rs) ==
    IF WrongArity(rs)
    THEN [ok |-> FALSE, err |-> "WrongNumberOfArguments",
          expected |-> ExpectedArgs, actual |-> Len(rs), viewed |-> FALSE, val |-> NoBound]
    ELSE
      LET gas  == UnpackDeref(rs[1])
          sys  == UnpackBuffer(rs[2], 8)
          addr == UnpackDeref(rs[3])
          arr  == try_get_view(rs[4], concrete_array_type)
          fail(e, v) == [ok |-> FALSE, err |-> e, expected |-> 0, actual |-> 0,
                         viewed |-> v, val |-> NoBound]
      IN  IF ~gas.ok THEN fail(gas.err, FALSE)
          ELSE IF ~sys.ok THEN fail(sys.err, FALSE)
          ELSE IF ~addr.ok THEN fail(addr.err, FALSE)
          ELSE IF ~arr.ok THEN fail("InvalidReferenceExpressionForArgument", TRUE)
          ELSE [ok |-> TRUE, err |-> "", expected |-> 0, actual |-> 0, viewed |-> TRUE,
                val |-> [gas_builtin |-> gas.val, system |-> sys.val,
                         contract_address |-> addr.val,
                         call_data_start |-> arr.val.start,
                         call_data_end |-> arr.val.end,
                         end_offset |-> arr.val.end_offset]]

ErrResult(e, expected, actual) ==
    [NoResult EXCEPT !.status = "Err", !.err = e, !.expected = expected,
                     !.actual = actual]

\* A variant of PendingEndOffset: the check on end_offset left out.
PendingEndOffsetUnchecked(view) == FALSE

\* if call_data.end_offset != 0
PendingEndOffset(view) == view.end_offset # 0

\* build_call_contract up to CasmBuilder::default().
CallContractEntry ==
    /\ pc = "entry"
    /\ libfunc = "call_contract"
    /\ LET b == BindRefs(refs) IN
         /\ array_view_ty' = IF b.viewed THEN concrete_array_type ELSE array_view_ty
         /\ IF ~b.ok
            THEN /\ result' = ErrResult(b.err, b.expected, b.actual)
                 /\ pc' = "done"
                 /\ UNCHANGED <<bound, session, ip>>
            ELSE IF PendingEndOffset(b.val)
            THEN /\ result' = ErrResult("InvalidReferenceExpressionForArgument", 0, 0)
                 /\ pc' = "done"
                 /\ UNCHANGED <<bound, session, ip>>
            ELSE /\ bound' = b.val
                 /\ session' = TRUE
                 /\ pc' = "drive"
                 /\ ip' = 1
                 /\ UNCHANGED result
    /\ UNCHANGED <<libfunc, refs, c, context, failure_target, bvars, allocated,
                   ap_change, instructions, current_hints, label_state, jumps,
                   built, signature>>

(***************************************************************************)
(* The builder session of build_call_contract: the add_var calls and the   *)
(* statements of the casm_build_extend! block, in source order.            *)
(***************************************************************************)
St(op, dst, a) == [op |-> op, dst |-> dst, a |-> a]

\* A variant of call_contract_code: the hint moved before the last write.
call_contract_code_hint_early ==
    << St("add_var", "system", "system"),
       St("add_var", "selector_imm", "selector_imm"),
       St("add_var", "gas_builtin", "gas_builtin"),
       St("add_var", "contract_address", "contract_address"),
       St("add_var", "call_data_start", "call_data_start"),
       St("add_var", "call_data_end", "call_data_end"),
       St("tempvar", "selector", ""),
       St("assert_eq", "selector", "selector_imm"),
       St("let", "original_system", "system"),
       St("write", "system", "selector"),
       St("write", "system", "gas_builtin"),
       St("write", "system", "contract_address"),
       St("write", "system", "call_data_start"),
       St("hint", "SystemCall", "original_system"),
       St("write", "system", "call_data_end"),
       St("read", "system", "updated_gas_builtin"),
       St("tempvar", "revert_reason", ""),
       St("write", "system", "revert_reason"),
       St("read", "system", "res_start"),
       St("read", "system", "res_end"),
       St("jump_nz", "Failure", "revert_reason") >>

\* A variant of call_contract_code: revert_reason read in place like the
\* other response words, instead of through a temporary.
call_contract_code_reason_read ==
    << St("add_var", "system", "system"),
       St("add_var", "selector_imm", "selector_imm"),
       St("add_var", "gas_builtin", "gas_builtin"),
       St("add_var", "contract_address", "contract_address"),
       St("add_var", "call_data_start", "call_data_start"),
       St("add_var", "call_data_end", "call_data_end"),
       St("tempvar", "selector", ""),
       St("assert_eq", "selector", "selector_imm"),
       St("let", "original_system", "system"),
       St("write", "system", "selector"),
       St("write", "system", "gas_builtin"),
       St("write", "system", "contract_address"),
       St("write", "system", "call_data_start"),
       St("write", "system", "call_data_end"),
       St("hint", "SystemCall", "original_system"),
       St("read", "system", "updated_gas_builtin"),
       St("read", "system", "revert_reason"),
       St("read", "system", "res_start"),
       St("read", "system", "res_end"),
       St("jump_nz", "Failure", "revert_reason") >>

call_contract_code ==
    << St("add_var", "system", "system"),
       St("add_var", "selector_imm", "selector_imm"),
       St("add_var", "gas_builtin", "gas_builtin"),
       St("add_var", "contract_address", "contract_address"),
       St("add_var", "call_data_start", "call_data_start"),
       St("add_var", "call_data_end", "call_data_end"),
       St("tempvar", "selector", ""),
       St("assert_eq", "selector", "selector_imm"),
       St("let", "original_system", "system"),
       St("write", "system", "selector"),
       St("write", "system", "gas_builtin"),
       St("write", "system", "contract_address"),
       St("write", "system", "call_data_start"),
       St("write", "system", "call_data_end"),
       St("hint", "SystemCall", "original_system"),
       St("read", "system", "updated_gas_builtin"),
       St("tempvar", "revert_reason", ""),
       St("write", "system", "revert_reason"),
       St("read", "system", "res_start"),
       St("read", "system", "res_end"),
       St("jump_nz", "Failure", "revert_reason") >>

\* The operand an add_var call binds.
InputOperand(name) ==
    IF name = "selector_imm" THEN Immediate(selector_imm) ELSE bound[name]

(***************************************************************************)
(* CasmBuilder.                                                            *)
(***************************************************************************)
\* An operand relative to ap after ap advanced by `change`.
apply_known_ap_change(opnd, change) ==
    IF opnd.reg = "AP" THEN [opnd EXCEPT !.off = @ - change] ELSE opnd

\* State::get_adjusted on a captured state.
get_adjusted(state, var) == apply_known_ap_change(state.vars[var], state.ap_change)

\* State::get_adjusted_as_cell_ref
get_adjusted_as_cell_ref(state, var) == CellOf(get_adjusted(state, var))

main_state == [reached |-> TRUE, vars |-> bvars, ap_change |-> ap_change]

\* CasmBuilder::get_instruction: the instruction takes the pending hints and
\* carries ap++ when an allocated cell is not yet covered by ap_change.
get_instruction(body, a, b, inc_ap_supported) ==
    [body |-> body, a |-> a, b |-> b,
     inc_ap |-> inc_ap_supported /\ allocated > ap_change,
     hints |-> current_hints]

\* The cursor (cell, offset) of a buffer variable.
buffer_offset(var) == IF bvars[var].kind = "Deref" THEN 0 ELSE bvars[var].imm
buffer_advanced(var) == BinOpAdd(bvars[var].reg, bvars[var].off, buffer_offset(var) + 1)
buffer_location(var) == DoubleDeref(bvars[var].reg, bvars[var].off, buffer_offset(var))

Driving(op) ==
    /\ pc = "drive"
    /\ ip <= Len(call_contract_code)
    /\ call_contract_code[ip].op = op

Advance ==
    /\ ip' = ip + 1
    /\ pc' = IF ip = Len(call_contract_code) THEN "build" ELSE "drive"

Frame ==
    UNCHANGED <<libfunc, refs, c, context, failure_target, bound, array_view_ty,
                session, built, result, signature>>

Emit(instr) ==
    /\ instructions' = Append(instructions, instr)
    /\ ap_change' = IF instr.inc_ap THEN ap_change + 1 ELSE ap_change
    /\ current_hints' = <<>>

\* CasmBuilder::add_var
AddVar ==
    /\ Driving("add_var")
    /\ LET st == call_contract_code[ip] IN
         bvars' = [bvars EXCEPT ![st.dst] = InputOperand(st.a)]
    /\ Advance
    /\ Frame
    /\ UNCHANGED <<allocated, ap_change, instructions, current_hints, label_state, jumps>>

\* tempvar x: CasmBuilder::alloc_var
TempVar ==
    /\ Driving("tempvar")
    /\ LET st == call_contract_code[ip] IN
         bvars' = [bvars EXCEPT ![st.dst] = Deref("AP", allocated)]
    /\ allocated' = allocated + 1
    /\ Advance
    /\ Frame
    /\ UNCHANGED <<ap_change, instructions, current_hints, label_state, jumps>>

\* assert x = y: CasmBuilder::assert_vars_eq
AssertVarsEq ==
    /\ Driving("assert_eq")
    /\ LET st == call_contract_code[ip] IN
         Emit(get_instruction("AssertEq",
                              get_adjusted_as_cell_ref(main_state, st.dst),
                              get_adjusted(main_state, st.a), TRUE))
    /\ Advance
    /\ Frame
    /\ UNCHANGED <<bvars, allocated, label_state, jumps>>

\* let y = x: CasmBuilder::duplicate_var
LetVar ==
    /\ Driving("let")
    /\ LET st == call_contract_code[ip] IN
         bvars' = [bvars EXCEPT ![st.dst] = bvars[st.a]]
    /\ Advance
    /\ Frame
    /\ UNCHANGED <<allocated, ap_change, instructions, current_hints, label_state, jumps>>

\* assert *(buf++) = x: CasmBuilder::buffer_write_and_inc
BufferWriteAndInc ==
    /\ Driving("write")
    /\ LET st == call_contract_code[ip] IN
         /\ Emit(get_instruction("AssertEq",
                    get_adjusted_as_cell_ref(main_state, st.a),
                    apply_known_ap_change(buffer_location(st.dst), ap_change), TRUE))
         /\ bvars' = [bvars EXCEPT ![st.dst] = buffer_advanced(st.dst)]
    /\ Advance
    /\ Frame
    /\ UNCHANGED <<allocated, label_state, jumps>>

\* let x = *(buf++): CasmBuilder::double_deref over buffer_get_and_inc
BufferReadAndInc ==
    /\ Driving("read")
    /\ LET st == call_contract_code[ip] IN
         bvars' = [bvars EXCEPT ![st.a] = buffer_location(st.dst),
                                ![st.dst] = buffer_advanced(st.dst)]
    /\ Advance
    /\ Frame
    /\ UNCHANGED <<allocated, ap_change, instructions, current_hints, label_state, jumps>>

\* hint SystemCall { system: x }: CasmBuilder::add_hint
AddHint ==
    /\ Driving("hint")
    /\ LET st == call_contract_code[ip] IN
         current_hints' = Append(current_hints,
             [name |-> st.dst, system |-> get_adjusted(main_state, st.a)])
    /\ Advance
    /\ Frame
    /\ UNCHANGED <<bvars, allocated, ap_change, instructions, label_state, jumps>>

\* jump L if x != 0: CasmBuilder::jump_nz
JumpNz ==
    /\ Driving("jump_nz")
    /\ LET st == call_contract_code[ip]
           instr == get_instruction("Jnz", get_adjusted_as_cell_ref(main_state, st.a),
                                    Immediate(BigZero), FALSE)
       IN  /\ Emit(instr)
           /\ jumps' = Append(jumps, [idx |-> Len(instructions), label |-> st.dst])
           /\ label_state' = [label_state EXCEPT ![st.dst] = main_state]
    /\ Advance
    /\ Frame
    /\ UNCHANGED <<bvars, allocated>>

\* Labels the block defines itself (it has no `Label:` statement).
LocalLabels == {}

IsAwaiting(j) == j.label \notin LocalLabels
JumpIdx(js) == [i \in 1..Len(js) |-> js[i].idx]

\* CasmBuilder::build
CasmBuildResult ==
    [done |-> TRUE,
     instructions |-> instructions,
     awaiting_relocations |-> JumpIdx(SelectSeq(jumps, IsAwaiting)),
     label_state |-> label_state,
     fallthrough_state |-> main_state]

\* core_libfunc_ap_change::core_libfunc_ap_change: Known(n) per branch.
core_libfunc_ap_change(lf) ==
    IF lf = "call_contract" THEN <<2, 2>> ELSE <<>>

\* The ap-changes the session computed, (fallthrough, Failure).
ComputedApChange(b) ==
    <<b.fallthrough_state.ap_change, b.label_state["Failure"].ap_change>>

PanicResult(msg) == [NoResult EXCEPT !.status = "Panic", !.err = msg]

\* casm_builder.build() and the assert_eq! on the ap-changes.
CasmBuild ==
    /\ pc = "build"
    /\ built' = CasmBuildResult
    /\ IF core_libfunc_ap_change(libfunc) = ComputedApChange(CasmBuildResult)
       THEN pc' = "built" /\ UNCHANGED result
       ELSE pc' = "done" /\ result' = PanicResult("assertion failed: ap change")
    /\ UNCHANGED <<libfunc, refs, c, context, failure_target, ip, bound, array_view_ty,
                   session, bvars, allocated, ap_change, instructions, current_hints,
                   label_state, jumps, signature>>

\* The output references of the success branch.
SuccessRefs(b) ==
    LET st == b.fallthrough_state IN
    << from_cell(from_res_operand(get_adjusted(st, "updated_gas_builtin"))),
       from_cell(from_res_operand(get_adjusted(st, "system"))),
       [cells |-> << from_res_operand(get_adjusted(st, "res_start")),
                     from_res_operand(get_adjusted(st, "res_end")) >>] >>

\* A variant of FailureRefs: the revert reason after the result buffer.
FailureRefsReasonLast(b) ==
    LET st == b.label_state["Failure"] IN
    << from_cell(from_res_operand(get_adjusted(st, "updated_gas_builtin"))),
       from_cell(from_res_operand(get_adjusted(st, "system"))),
       [cells |-> << from_res_operand(get_adjusted(st, "res_start")),
                     from_res_operand(get_adjusted(st, "res_end")) >>],
       from_cell(get_adjusted_as_cell_ref(st, "revert_reason")) >>

\* The output references of the failure branch.
FailureRefs(b) ==
    LET st == b.label_state["Failure"] IN
    << from_cell(from_res_operand(get_adjusted(st, "updated_gas_builtin"))),
       from_cell(from_res_operand(get_adjusted(st, "system"))),
       from_cell(get_adjusted_as_cell_ref(st, "revert_reason")),
       [cells |-> << from_res_operand(get_adjusted(st, "res_start")),
                     from_res_operand(get_adjusted(st, "res_end")) >>] >>

\* A variant of RelocationEntries: the relocation put on the instruction
\* after the jump.
RelocationEntriesOffByOne(b) ==
    << [instruction_idx |-> b.awaiting_relocations[1] + 1,
        relocation |-> [kind |-> "RelativeStatementId",
                        target |-> get_non_fallthrough_statement_id]] >>

\* The relocation of the jump to the failure branch.
RelocationEntries(b) ==
    << [instruction_idx |-> b.awaiting_relocations[1],
        relocation |-> [kind |-> "RelativeStatementId",
                        target |-> get_non_fallthrough_statement_id]] >>

\* CompiledInvocationBuilder::build
CompiledInvocation(instrs, relocs, branches) ==
    [NoResult EXCEPT !.status = "Ok", !.instructions = instrs,
                     !.relocations = relocs, !.branches = branches]

\* build_call_contract after the builder session: relocation and outputs.
CallContractFinish ==
    /\ pc = "built"
    /\ result' =
         IF Len(built.awaiting_relocations) # 1
         THEN PanicResult("Malformed casm builder usage.")
         ELSE CompiledInvocation(built.instructions, RelocationEntries(built),
                                 <<SuccessRefs(built), FailureRefs(built)>>)
    /\ pc' = "done"
    /\ UNCHANGED <<libfunc, refs, c, context, failure_target, ip, bound, array_view_ty,
                   session, bvars, allocated, ap_change, instructions, current_hints,
                   label_state, jumps, built, signature>>

(***************************************************************************)
(* build_contract_address_const                                            *)
(***************************************************************************)
\* The range check on libfunc.c.
AddressConstRejected(x) == BigGe(x, addr_bound)

\* CompiledInvocationBuilder::build_only_reference_changes
build_only_reference_changes(outputs) ==
    CompiledInvocation(<<>>, <<>>, <<outputs>>)

BuildContractAddressConst ==
    /\ pc = "entry"
    /\ libfunc = "storage_address_const"
    /\ result' = IF AddressConstRejected(c)
                 THEN ErrResult("InvalidGenericArg", 0, 0)
                 ELSE build_only_reference_changes(<<from_cell(Immediate(c))>>)
    /\ pc' = "done"
    /\ UNCHANGED <<libfunc, refs, c, context, failure_target, ip, bound, array_view_ty,
                   session, bvars, allocated, ap_change, instructions, current_hints,
                   label_state, jumps, built, signature>>

(***************************************************************************)
(* Storage syscall signatures.                                             *)
(***************************************************************************)
\* context.get_concrete_type(id, &[])
get_concrete_type(ctx, id) ==
    IF id \in ctx THEN Ok(id) ELSE Err("SpecializationError")

Param(ty, deferred, add_const, const) ==
    [ty |-> ty, allow_deferred |-> deferred, allow_add_const |-> add_const,
     allow_const |-> const]

\* ParamSignature::new
ParamSignature_new(ty) == Param(ty, FALSE, FALSE, FALSE)

DeferredGeneric ==
    [kind |-> "Deferred", deferred |-> "Generic", param_idx |-> -1, idx |-> -1]
DeferredAddConst(param_idx) ==
    [kind |-> "Deferred", deferred |-> "AddConst", param_idx |-> param_idx, idx |-> -1]
NewTempVar(idx) ==
    [kind |-> "NewTempVar", deferred |-> "", param_idx |-> -1, idx |-> idx]

OutputVarInfo(ty, ref_info) == [ty |-> ty, ref_info |-> ref_info]
KnownApChange(new_vars_only) == [known |-> TRUE, new_vars_only |-> new_vars_only]
BranchSignature(outs, apc) == [vars |-> outs, ap_change |-> apc]

SignatureOk(params, branches, fallthrough) ==
    [status |-> "Ok", err |-> "", param_signatures |-> params,
     branch_signatures |-> branches, fallthrough |-> fallthrough]
SignatureErr(e) == [NoSignature EXCEPT !.status = "Err", !.err = e]

\* LibFuncSignature::new_non_branch_ex
new_non_branch_ex(params, outs, apc) ==
    SignatureOk(params, <<BranchSignature(outs, apc)>>, 0)

AllResolved(ctx, ids) == \A id \in ids : get_concrete_type(ctx, id).ok

\* StorageReadLibFunc::specialize_signature
StorageReadSignature(ctx) ==
    IF ~AllResolved(ctx, {"System", "StorageAddress", "felt"})
    THEN SignatureErr("SpecializationError")
    ELSE new_non_branch_ex(
            << Param("System", FALSE, TRUE, FALSE),
               ParamSignature_new("StorageAddress") >>,
            << OutputVarInfo("System", DeferredAddConst(0)),
               OutputVarInfo("felt", NewTempVar(0)) >>,
            KnownApChange(FALSE))

\* A variant of StorageWriteSystemRefInfo: the parameter index of
\* storage_read_syscall, where the system is parameter 0.
StorageWriteSystemRefInfoParam0 == DeferredAddConst(0)

\* The system output of both branches of storage_write_syscall.
StorageWriteSystemRefInfo == DeferredAddConst(1)

\* StorageWriteLibFunc::specialize_signature
StorageWriteSignature(ctx) ==
    IF ~AllResolved(ctx, {"GasBuiltin", "System", "StorageAddress", "felt"})
    THEN SignatureErr("SpecializationError")
    ELSE SignatureOk(
            << ParamSignature_new("GasBuiltin"),
               Param("System", FALSE, TRUE, FALSE),
               ParamSignature_new("StorageAddress"),
               ParamSignature_new("felt") >>,
            << BranchSignature(
                   << OutputVarInfo("GasBuiltin", DeferredGeneric),
                      OutputVarInfo("System", StorageWriteSystemRefInfo) >>,
                   KnownApChange(FALSE)),
               BranchSignature(
                   << OutputVarInfo("GasBuiltin", DeferredGeneric),
                      OutputVarInfo("System", StorageWriteSystemRefInfo),
                      OutputVarInfo("felt", NewTempVar(0)) >>,
                   KnownApChange(FALSE)) >>,
            0)

SpecializeSignature ==
    /\ pc = "entry"
    /\ libfunc \in {"storage_read_syscall", "storage_write_syscall"}
    /\ signature' = IF libfunc = "storage_read_syscall"
                    THEN StorageReadSignature(context)
                    ELSE StorageWriteSignature(context)
    /\ pc' = "done"
    /\ UNCHANGED <<libfunc, refs, c, context, failure_target, ip, bound, array_view_ty,
                   session, bvars, allocated, ap_change, instructions, current_hints,
                   label_state, jumps, built, result>>

Next ==
    \/ CallContractEntry
    \/ AddVar
    \/ TempVar
    \/ AssertVarsEq
    \/ LetVar
    \/ BufferWriteAndInc
    \/ BufferReadAndInc
    \/ AddHint
    \/ JumpNz
    \/ CasmBuild
    \/ CallContractFinish
    \/ BuildContractAddressConst
    \/ SpecializeSignature

Spec == Init /\ [][Next]_vars

(***************************************************************************)
(* Properties.                                                             *)
(***************************************************************************)
\* An operand seen from an ap that advanced by n cells.
Seen(opnd, n) ==
    [opnd EXCEPT !.off = IF opnd.reg = "AP" THEN opnd.off - n ELSE opnd.off]

\* The input system channel: its cell and the offset it starts at.
SysOff == IF bound.system.kind = "BinOp" THEN bound.system.imm ELSE 0
SysWord(k) == DoubleDeref(bound.system.reg, bound.system.off, SysOff + k)
SysPtr(k) == BinOpAdd(bound.system.reg, bound.system.off, SysOff + k)

\* Words the channel pointer has advanced by so far.
SysAdvanced ==
    IF bvars["system"].kind = "None" THEN 0
    ELSE (IF bvars["system"].kind = "BinOp" THEN bvars["system"].imm ELSE 0) - SysOff

HintIssued ==
    \/ current_hints # <<>>
    \/ \E i \in 1..Len(instructions) : instructions[i].hints # <<>>

ResponseRead ==
    \/ bvars["updated_gas_builtin"] # NoOperand
    \/ bvars["res_start"] # NoOperand
    \/ bvars["res_end"] # NoOperand

Written(i, value, k) ==
    /\ instructions[i].body = "AssertEq"
    /\ instructions[i].a = value
    /\ instructions[i].b = Seen(SysWord(k), 1)

CallContractDone == libfunc = "call_contract" /\ pc = "done"

\* C1: a successful build_call_contract writes selector, gas, address,
\* call-data start and call-data end to channel words 0..4, issues the
\* SystemCall hint after the five writes and before any response read, with
\* the channel pointer as it was on entry, takes updated gas, revert reason,
\* result start and result end from words 5..8, ends with the conditional
\* jump to Failure, and leaves the channel pointer advanced by 9 words.
C1_BuilderOrder ==
    /\ session =>
         /\ HintIssued => SysAdvanced >= 5
         /\ SysAdvanced > 5 => HintIssued
         /\ (ResponseRead \/ bvars["revert_reason"] # NoOperand) => HintIssued
         /\ current_hints # <<>> => Len(instructions) = 6
         /\ jumps # <<>> => pc # "drive"
    /\ (session /\ pc # "drive") =>
         /\ Len(instructions) = 8
         /\ instructions[1].body = "AssertEq"
         /\ instructions[1].a = Deref("AP", 0)
         /\ instructions[1].b = Immediate(selector_imm)
         /\ Written(2, Deref("AP", -1), 0)
         /\ Written(3, Seen(bound.gas_builtin, 1), 1)
         /\ Written(4, Seen(bound.contract_address, 1), 2)
         /\ Written(5, Seen(bound.call_data_start, 1), 3)
         /\ Written(6, Seen(bound.call_data_end, 1), 4)
         /\ Written(7, Deref("AP", 0), 6)
         /\ \A i \in 1..8 : instructions[i].hints =
                IF i = 7
                THEN <<[name |-> "SystemCall", system |-> Seen(bound.system, 1)]>>
                ELSE <<>>
         /\ bvars["updated_gas_builtin"] = SysWord(5)
         /\ bvars["res_start"] = SysWord(7)
         /\ bvars["res_end"] = SysWord(8)
         /\ instructions[8].body = "Jnz"
         /\ instructions[8].a = Deref("AP", -1)
         /\ jumps = <<[idx |-> 7, label |-> "Failure"]>>
         /\ bvars["system"] = SysPtr(9)

C1_Witness ==
    /\ CallContractDone
    /\ result.status = "Ok"
    /\ bound.system.kind = "BinOp"
    /\ bound.system.imm > 0
    /\ bound.gas_builtin.reg = "FP"

C3_OneRelocation ==
    (CallContractDone /\ session) =>
        /\ result.status = "Ok"
        /\ Len(built.awaiting_relocations) = 1
        /\ Len(result.relocations) = 1
        /\ result.relocations[1].relocation =
               [kind |-> "RelativeStatementId", target |-> failure_target]
        /\ \A i \in 1..Len(result.instructions) :
               (result.instructions[i].body = "Jnz")
                   <=> (i = result.relocations[1].instruction_idx + 1)

C3_Witness ==
    /\ CallContractDone
    /\ result.status = "Ok"
    /\ failure_target = MaxStmt

\* C4: a successful build_call_contract returns two branches: success is
\* (updated gas, advanced channel, result buffer of two cells), failure is
\* (updated gas, advanced channel, revert reason, result buffer of two
\* cells), each cell seen from the ap of that exit (advanced by the two
\* temporaries).
C4_OutputReferences ==
    (CallContractDone /\ result.status = "Ok") =>
        LET gas    == [cells |-> <<Seen(SysWord(5), 2)>>]
            system == [cells |-> <<Seen(SysPtr(9), 2)>>]
            reason == [cells |-> <<Deref("AP", -1)>>]
            buffer == [cells |-> <<Seen(SysWord(7), 2), Seen(SysWord(8), 2)>>]
        IN  /\ built.fallthrough_state.ap_change = 2
            /\ built.label_state["Failure"].ap_change = 2
            /\ result.branches = << <<gas, system, buffer>>,
                                    <<gas, system, reason, buffer>> >>

C4_Witness ==
    /\ CallContractDone
    /\ result.status = "Ok"
    /\ Len(result.branches) = 2
    /\ bound.system.reg = "AP"
    /\ bound.system.kind = "BinOp"

\* C5: build_call_contract given a number of references other than 4 fails
\* with WrongNumberOfArguments; no builder session is created and nothing
\* is emitted.
C5_WrongNumberOfArguments ==
    (CallContractDone /\ Len(refs) # 4) =>
        /\ result.status = "Err"
        /\ result.err = "WrongNumberOfArguments"
        /\ ~session
        /\ instructions = <<>>
        /\ jumps = <<>>
        /\ ~built.done
        /\ result.instructions = <<>>
        /\ result.relocations = <<>>
        /\ result.branches = <<>>

C5_Witness ==
    /\ CallContractDone
    /\ Len(refs) = 5
    /\ result.status = "Err"

\* Four references of the right shapes whose call-data buffer has pending
\* writes: end cell `[cell] + n` with n # 0.
WellShapedPending(rs) ==
    /\ Len(rs) = 4
    /\ Len(rs[1].cells) = 1 /\ rs[1].cells[1].kind = "Deref"
    /\ Len(rs[2].cells) = 1 /\ rs[2].cells[1].kind \in {"Deref", "BinOp"}
    /\ Len(rs[3].cells) = 1 /\ rs[3].cells[1].kind = "Deref"
    /\ Len(rs[4].cells) = 2
    /\ rs[4].cells[1].kind = "Deref"
    /\ rs[4].cells[2].kind = "BinOp"
    /\ rs[4].cells[2].imm # 0

\* C6: build_call_contract given four well-shaped references whose call-data
\* buffer has end_offset # 0 fails with InvalidReferenceExpressionForArgument
\* before a builder session exists: nothing is emitted.
C6_PendingCallData ==
    (CallContractDone /\ WellShapedPending(refs)) =>
        /\ result.status = "Err"
        /\ result.err = "InvalidReferenceExpressionForArgument"
        /\ ~session
        /\ instructions = <<>>
        /\ ~built.done
        /\ result.instructions = <<>>
        /\ result.relocations = <<>>
        /\ result.branches = <<>>

C6_Witness ==
    /\ CallContractDone
    /\ WellShapedPending(refs)
    /\ result.status = "Err"

\* 0 <= x < 2^251
InAddressRange(x) == x.sign >= 0 /\ BigCmp(x, addr_bound) < 0

\* C7: build_contract_address_const succeeds exactly for 0 <= c < 2^251,
\* then with no instruction, no relocation and the one reference
\* Immediate(c); for every other c, above the range or below 0, it fails
\* with InvalidGenericArg.
C7_AddressConstRange ==
    (libfunc = "storage_address_const" /\ pc = "done") =>
        IF InAddressRange(c)
        THEN /\ result.status = "Ok"
             /\ result.instructions = <<>>
             /\ result.relocations = <<>>
             /\ result.branches = << <<[cells |-> <<Immediate(c)>>]>> >>
        ELSE /\ result.status = "Err"
             /\ result.err = "InvalidGenericArg"

StorageWriteDone ==
    libfunc = "storage_write_syscall" /\ pc = "done" /\ signature.status = "Ok"

\* The shape of the storage_write_syscall signature with the given
\* reference kind for the system output.
StorageWriteShape(system_ref_info) ==
    LET generic == [kind |-> "Deferred", deferred |-> "Generic",
                    param_idx |-> -1, idx |-> -1]
        br == signature.branch_signatures
    IN  /\ Len(signature.param_signatures) = 4
        /\ [i \in 1..4 |-> signature.param_signatures[i].ty]
               = <<"GasBuiltin", "System", "StorageAddress", "felt">>
        /\ Len(br) = 2
        /\ signature.fallthrough = 0
        /\ \A i \in 1..2 :
               /\ br[i].vars[1] = [ty |-> "GasBuiltin", ref_info |-> generic]
               /\ br[i].vars[2] = [ty |-> "System", ref_info |-> system_ref_info]
        /\ Len(br[1].vars) = 2
        /\ Len(br[2].vars) = 3
        /\ br[2].vars[3].ref_info.kind = "NewTempVar"

\* C8 (as stated): the storage-write signature has four parameters and two
\* branches with fallthrough 0; in both branches the gas and the system
\* outputs are Deferred(Generic); only the failure branch has a third
\* output, the revert reason, a NewTempVar.
C8_BothGeneric ==
    StorageWriteDone =>
        StorageWriteShape([kind |-> "Deferred", deferred |-> "Generic",
                           param_idx |-> -1, idx |-> -1])

\* C8 (amended): as above, but the system output of both branches is
\* Deferred(AddConst { param_idx: 1 }); only the gas output is
\* Deferred(Generic).
C8_SystemAddConst ==
    StorageWriteDone =>
        StorageWriteShape([kind |-> "Deferred", deferred |-> "AddConst",
                           param_idx |-> 1, idx |-> -1])

C8_Witness == StorageWriteDone /\ Len(signature.branch_signatures) = 2

\* C9: the WrongNumberOfArguments error for a list of n # 4 references
\* reports expected = 4 and actual = n.
C9_ExpectedFour ==
    (CallContractDone /\ Len(refs) # 4) =>
        /\ result.err = "WrongNumberOfArguments"
        /\ result.expected = 4
        /\ result.actual = Len(refs)

\* C10: the type the call-data reference is viewed against is the type of
\* the call-data parameter (position 3 counted from 0), the position of
\* the reference itself.
C10_CallDataType ==
    (libfunc = "call_contract" /\ array_view_ty # NoType) =>
        /\ array_view_ty.param_idx = 3
        /\ array_view_ty.ty = call_contract_param_signatures[4]

====
